---------------------------- MODULE Spec2Model ----------------------------
(***************************************************************************)
(* A model of the terfer2 domain crate (src/domain/src/node.rs, edge.rs,   *)
(* instance.rs): nodes with an append-only history of Instances, edges     *)
(* between a parent and a child node, soft delete/restore, and the         *)
(* std::sync::RwLock that guards every node.                               *)
(*                                                                         *)
(* Abstractions.                                                           *)
(*  - Uuid::new_v4() is a fresh identifier: a node or edge id is its index *)
(*    in NodeIds / EdgeIds, so comparing ids compares indices.             *)
(*  - Zoned::now() timestamps are never compared by the code; an           *)
(*    Option<Zoned> is modelled by is_some(), a BOOLEAN.                   *)
(*  - A call is split at the points where it can wait for a node lock it   *)
(*    keeps other locks across: the acquisition of the node lock(s) and    *)
(*    the body run under them.  The read locks a body takes and drops      *)
(*    again (edge locks, the child and parent of an edge inside is_live)   *)
(*    are taken inside the body step, which waits while another caller     *)
(*    write-holds one of them.                                             *)
(*  - RwLock::read()/write() on a lock the calling thread already holds    *)
(*    for writing "might panic" or deadlock (std documentation): both      *)
(*    outcomes are modelled.  A panic unwinds the call, and every write    *)
(*    guard dropped by the unwinding poisons its lock.                     *)
(*  - Edge locks are write-held only inside Edge delete/restore and are    *)
(*    never poisoned (no panic can happen under an edge write guard).      *)
(***************************************************************************)
EXTENDS Integers, Sequences, FiniteSets, TLC

MaxNodes   == 3   \* node ids
MaxEdges   == 2   \* edge ids: edges ever constructed
MaxCallers == 2   \* caller thread ids
MaxTrail   == 2   \* remembered preceding calls of a connect/disconnect run

\* The budget of the one-caller specification Spec: nodes constructed,
\* Instances appended after construction (over all nodes), distinct values.
SeqNodes   == 2
SeqAppends == 2
SeqValues  == 2

\* The budget of the two-caller specification SpecConc.
ConcNodes   == 2
ConcAppends == 1
ConcValues  == 1

\* The budget of the specification SpecEdge (one caller, with the direct
\* edge operations).
EdgeNodes   == 2
EdgeAppends == 1
EdgeValues  == 1

\* The budget of the specification SpecWide (one caller, three nodes).
WideNodes   == 3
WideAppends == 1
WideValues  == 1

\* The budget of the specification SpecLong (one caller, the direct edge
\* operations, histories of up to three Instances).
LongNodes   == 2
LongAppends == 2
LongValues  == 1

\* The budget of the specification SpecRace (two callers; one node has been
\* constructed and soft-deleted before they start).
RaceNodes   == 2
RaceAppends == 2
RaceValues  == 1

NodeIds   == 1..MaxNodes
EdgeIds   == 1..MaxEdges
CallerIds == 1..MaxCallers

VARIABLES
  node,     \* node[n]: the Node struct (and whether it is allocated)
  lock,     \* lock[n]: the RwLock<Node> around node n
  edge,     \* edge[e]: the Edge struct
  call,     \* call[t]: the call caller t is in, or its last call and result
  trail,    \* trail[t]: the successful connect/remove_child calls on one
            \*           pair that immediately precede call[t]
  cfg       \* the caller threads that exist and the budget of the run

vars == <<node, lock, edge, call, trail, cfg>>

Values == 1..cfg.values

-----------------------------------------------------------------------------
(* Results.  Ok carries the returned value (0 for unit, 0/1 for a bool).    *)

Ret(k, v) == [k |-> k, v |-> v]
Ok        == Ret("Ok", 0)
Err(k)    == Ret(k, 0)
Pending   == Ret("none", 0)
BoolVal(b) == IF b THEN 1 ELSE 0

-----------------------------------------------------------------------------
(* instance.rs                                                              *)

new_created(value) == [instance_type |-> "Created", value |-> value]

new_updated(value) == [instance_type |-> "Updated", value |-> value]

\* A faulty deleted_child that does not carry the value forward (used to
\* test that C10_HistoryMonotone tells the difference).
deleted_child_blank(instance) ==
  [instance_type |-> "Deleted", value |-> 0]

deleted_child(instance) ==
  [instance_type |-> "Deleted", value |-> instance.value]

restored_child(instance) ==
  [instance_type |-> "Restored", value |-> instance.value]

-----------------------------------------------------------------------------
(* node.rs: the Node struct and its methods, as functions of the struct.    *)
(* A method returns the struct after the call and the call's result.        *)

UnbornNode ==
  [st |-> "unborn", handle |-> FALSE, deleted_at |-> FALSE,
   instances |-> <<>>, edges |-> <<>>]

FreedNode == [UnbornNode EXCEPT !.st = "freed"]

\* A faulty Node::new that starts with an empty history (used to test
\* that C8_Construction tells the difference).
Node_new_without_instance(value) ==
  [st |-> "alloc", handle |-> TRUE, deleted_at |-> FALSE,
   instances |-> <<>>, edges |-> <<>>]

Node_new(value) ==
  [st |-> "alloc", handle |-> TRUE, deleted_at |-> FALSE,
   instances |-> <<new_created(value)>>, edges |-> <<>>]

Out(nd, res) == [node |-> nd, res |-> res]

Node_is_deleted(nd) == nd.deleted_at

\* A faulty deleted_check that lets every node pass (used to test that
\* C11_DeletedCheck tells the difference).
deleted_check_skipped(nd) == Ok

deleted_check(nd) ==
  IF Node_is_deleted(nd) THEN Err("OperationOnDeletedNode") ELSE Ok

last_instance(nd) ==
  IF Len(nd.instances) = 0 THEN Err("OperationOnEmptyNode")
  ELSE Ret("Ok", Len(nd.instances))

Node_update(nd, value) ==
  IF deleted_check(nd) # Ok THEN Out(nd, deleted_check(nd))
  ELSE Out([nd EXCEPT !.instances = Append(@, new_updated(value))], Ok)

\* A faulty Node::delete that sets the marker and appends no Deleted
\* instance (used to test that C22_MarkerAgreesWithHistory tells the
\* difference).
Node_delete_marker_only(nd) ==
  IF Node_is_deleted(nd) THEN Out(nd, Err("DeleteDeletedNode"))
  ELSE Out([nd EXCEPT !.deleted_at = TRUE], Ok)

\* A faulty Node::delete without the is_deleted check (used to test that
\* C9_TransitionValidated tells the difference).
Node_delete_unchecked(nd) ==
  LET marked == [nd EXCEPT !.deleted_at = TRUE]
      last   == last_instance(marked)
  IN IF last.k # "Ok" THEN Out(marked, Err("OperationOnEmptyNode"))
     ELSE Out([marked EXCEPT !.instances =
                 Append(@, deleted_child(marked.instances[last.v]))], Ok)

Node_delete(nd) ==
  IF Node_is_deleted(nd) THEN Out(nd, Err("DeleteDeletedNode"))
  ELSE LET marked == [nd EXCEPT !.deleted_at = TRUE]
           last   == last_instance(marked)
       IN IF last.k # "Ok" THEN Out(marked, Err("OperationOnEmptyNode"))
          ELSE Out([marked EXCEPT !.instances =
                      Append(@, deleted_child(marked.instances[last.v]))], Ok)

\* A faulty Node::restore without the is_deleted check (used to test that
\* C23_TransitionsSerialize tells the difference).
Node_restore_unchecked(nd) ==
  LET cleared == [nd EXCEPT !.deleted_at = FALSE]
      last    == last_instance(cleared)
  IN IF last.k # "Ok" THEN Out(cleared, Err("OperationOnEmptyNode"))
     ELSE Out([cleared EXCEPT !.instances =
                 Append(@, restored_child(cleared.instances[last.v]))], Ok)

\* A faulty Node::restore that undoes the delete by removing the Deleted
\* instance from the history (used to test that C21_AppendOnly tells the
\* difference).
Node_restore_popping(nd) ==
  IF ~Node_is_deleted(nd) THEN Out(nd, Err("RestoreNotDeletedNode"))
  ELSE LET cleared == [nd EXCEPT !.deleted_at = FALSE]
           last    == last_instance(cleared)
       IN IF last.k # "Ok" THEN Out(cleared, Err("OperationOnEmptyNode"))
          ELSE Out([cleared EXCEPT !.instances = SubSeq(@, 1, last.v - 1)], Ok)

\* A faulty Node::restore that appends the Restored instance and leaves
\* deleted_at set (used to test that C7_NodeDeleteRestoreFrame tells the
\* difference).
Node_restore_keeps_marker(nd) ==
  IF ~Node_is_deleted(nd) THEN Out(nd, Err("RestoreNotDeletedNode"))
  ELSE LET last == last_instance(nd)
       IN IF last.k # "Ok" THEN Out(nd, Err("OperationOnEmptyNode"))
          ELSE Out([nd EXCEPT !.instances =
                      Append(@, restored_child(nd.instances[last.v]))], Ok)

Node_restore(nd) ==
  IF ~Node_is_deleted(nd) THEN Out(nd, Err("RestoreNotDeletedNode"))
  ELSE LET cleared == [nd EXCEPT !.deleted_at = FALSE]
           last    == last_instance(cleared)
       IN IF last.k # "Ok" THEN Out(cleared, Err("OperationOnEmptyNode"))
          ELSE Out([cleared EXCEPT !.instances =
                      Append(@, restored_child(cleared.instances[last.v]))], Ok)

Node_value(nd) ==
  LET last == last_instance(nd)
  IN IF last.k # "Ok" THEN Err("OperationOnEmptyNode")
     ELSE Ret("Ok", nd.instances[last.v].value)

-----------------------------------------------------------------------------
(* std::sync::RwLock<Node>                                                  *)

FreeLock == [writer |-> 0, readers |-> {}, poisoned |-> FALSE]

\* What lock.read() does for thread t (0: a thread holding no lock):
\* "self"  the thread holds the write guard itself (deadlock or panic),
\* "wait"  another thread holds the write guard,
\* "poisoned"  the guard is obtained and the Result is Err(PoisonError),
\* "ok"    the guard is obtained.
TryRead(t, n) ==
  IF lock[n].writer # 0 /\ lock[n].writer = t THEN "self"
  ELSE IF lock[n].writer # 0 THEN "wait"
  ELSE IF lock[n].poisoned THEN "poisoned"
  ELSE "ok"

\* A faulty write() that does not wait for the guards other callers hold
\* (used to test that C24_NoEdgeOnDeletedEndpoint tells the difference).
TryWrite_barging(t, n) ==
  IF lock[n].writer # 0 /\ lock[n].writer = t THEN "self"
  ELSE IF lock[n].poisoned THEN "poisoned"
  ELSE "ok"

\* A faulty write() that hands out the guard of a poisoned lock as Ok (used
\* to test that C16_PoisonSurfaced tells the difference).
TryWrite_ignoring_poison(t, n) ==
  IF lock[n].writer # 0 /\ lock[n].writer = t THEN "self"
  ELSE IF lock[n].writer # 0 \/ lock[n].readers # {} THEN "wait"
  ELSE "ok"

\* What lock.write() does for thread t.
TryWrite(t, n) ==
  IF lock[n].writer # 0 /\ lock[n].writer = t THEN "self"
  ELSE IF lock[n].writer # 0 \/ lock[n].readers # {} THEN "wait"
  ELSE IF lock[n].poisoned THEN "poisoned"
  ELSE "ok"

\* Unwinding out of thread t's call: every guard is dropped, and a write
\* guard dropped while panicking poisons its lock.
Unwind(t) ==
  [n \in NodeIds |->
     IF lock[n].writer = t
       THEN [lock[n] EXCEPT !.writer = 0, !.poisoned = TRUE]
       ELSE [lock[n] EXCEPT !.readers = @ \ {t}]]

\* Returning from thread t's call: every guard is dropped.
Release(t) ==
  [n \in NodeIds |->
     IF lock[n].writer = t
       THEN [lock[n] EXCEPT !.writer = 0]
       ELSE [lock[n] EXCEPT !.readers = @ \ {t}]]

-----------------------------------------------------------------------------
(* edge.rs: the Edge struct.  parent is the Weak back-reference (it resolves *)
(* while the parent node is allocated), child the owning Arc.                *)

UnbornEdge == [st |-> "unborn", parent |-> 0, child |-> 0, deleted_at |-> FALSE]

Edge_new(parent, child) ==
  [st |-> "alloc", parent |-> parent, child |-> child, deleted_at |-> FALSE]

EOut(e, res) == [edge |-> e, res |-> res]

Edge_is_deleted(e) == e.deleted_at

Edge_delete(e) ==
  IF Edge_is_deleted(e) THEN EOut(e, Err("DeleteDeletedEdge"))
  ELSE EOut([e EXCEPT !.deleted_at = TRUE], Ok)

\* A faulty Edge::restore without the is_deleted check (used to test that
\* C19_OwnMarkerOnly tells the difference).
Edge_restore_unchecked(e) == EOut([e EXCEPT !.deleted_at = FALSE], Ok)

Edge_restore(e) ==
  IF ~Edge_is_deleted(e) THEN EOut(e, Err("RestoreNotDeletedEdge"))
  ELSE EOut([e EXCEPT !.deleted_at = FALSE], Ok)

\* Weak::upgrade() of an edge's parent: Some while the node is allocated.
Upgrades(n) == node[n].st = "alloc"

\* lock.read().unwrap() on node n by thread t: "ok", or how it fails to
\* give a guard ("self", "wait", or "panic" for the unwrap of a PoisonError).
ReadUnwrap(t, n) ==
  IF TryRead(t, n) = "poisoned" THEN "panic" ELSE TryRead(t, n)

\* A faulty Edge::is_live that leaves out the edge's own deleted_at (used to
\* test that C6_LiveIsConjunction tells the difference).
Edge_is_live_ignoring_marker(t, e) ==
  IF ReadUnwrap(t, e.child) # "ok" THEN ReadUnwrap(t, e.child)
  ELSE IF Node_is_deleted(node[e.child]) THEN "false"
  ELSE IF ~Upgrades(e.parent) THEN "false"
  ELSE IF ReadUnwrap(t, e.parent) # "ok" THEN ReadUnwrap(t, e.parent)
  ELSE IF Node_is_deleted(node[e.parent]) THEN "false"
  ELSE "true"

\* Edge::is_live of edge record e, evaluated by thread t: "true", "false",
\* or the way the evaluation does not come to a value.  The conjunction is
\* evaluated left to right and stops at the first false conjunct.
Edge_is_live(t, e) ==
  IF e.deleted_at THEN "false"
  ELSE IF ReadUnwrap(t, e.child) # "ok" THEN ReadUnwrap(t, e.child)
  ELSE IF Node_is_deleted(node[e.child]) THEN "false"
  ELSE IF ~Upgrades(e.parent) THEN "false"
  ELSE IF ReadUnwrap(t, e.parent) # "ok" THEN ReadUnwrap(t, e.parent)
  ELSE IF Node_is_deleted(node[e.parent]) THEN "false"
  ELSE "true"

\* Node::panic_on_poison_eq(node1, node2): both locks are read, then the
\* ids are compared.
Node_panic_on_poison_eq(t, n1, n2) ==
  IF ReadUnwrap(t, n1) # "ok" THEN ReadUnwrap(t, n1)
  ELSE IF ReadUnwrap(t, n2) # "ok" THEN ReadUnwrap(t, n2)
  ELSE IF n1 = n2 THEN "true" ELSE "false"

\* Edge::panic_on_poison_eq(edge1, edge2): the ids are compared (both edge
\* locks are read; an edge lock is never poisoned).
Edge_panic_on_poison_eq(e1, e2) == e1 = e2

Stop(st, e) == [st |-> st, e |-> e]

\* edges().any(..) / edges_mut().find(..) with the predicate
\* |edge| Node::panic_on_poison_eq(edge.read_child(), target): the first live
\* edge from position i of es whose child is target.  The iterator is lazy:
\* the search ends at the first match or at the first evaluation that does
\* not come to a value (its edge is reported: is_live runs under that edge's
\* read guard).
RECURSIVE FindLiveChild(_, _, _, _, _)
FindLiveChild(t, ed, es, i, target) ==
  IF i > Len(es) THEN Stop("none", 0)
  ELSE LET live == Edge_is_live(t, ed[es[i]])
       IN IF live = "false" THEN FindLiveChild(t, ed, es, i + 1, target)
          ELSE IF live # "true" THEN Stop(live, es[i])
          ELSE LET eq == Node_panic_on_poison_eq(t, ed[es[i]].child, target)
               IN IF eq = "true" THEN Stop("found", es[i])
                  ELSE IF eq = "false"
                    THEN FindLiveChild(t, ed, es, i + 1, target)
                  ELSE Stop(eq, 0)

\* dead_edges_mut().find(|e| Edge::panic_on_poison_eq(e, &edge)): the first
\* non-live edge from position i of es whose id is that of the edge new.
RECURSIVE FindDead(_, _, _, _, _)
FindDead(t, ed, es, i, new) ==
  IF i > Len(es) THEN Stop("none", 0)
  ELSE LET live == Edge_is_live(t, ed[es[i]])
       IN IF live = "true" THEN FindDead(t, ed, es, i + 1, new)
          ELSE IF live # "false" THEN Stop(live, es[i])
          ELSE IF Edge_panic_on_poison_eq(es[i], new) THEN Stop("found", es[i])
          ELSE FindDead(t, ed, es, i + 1, new)

\* edges().count(): the number of live edges from position i of es.
RECURSIVE CountLive(_, _, _, _)
CountLive(t, ed, es, i) ==
  IF i > Len(es) THEN [st |-> "ok", n |-> 0, e |-> 0]
  ELSE LET live == Edge_is_live(t, ed[es[i]])
           rest == CountLive(t, ed, es, i + 1)
       IN IF live \notin {"true", "false"} THEN [st |-> live, n |-> 0, e |-> es[i]]
          ELSE IF rest.st # "ok" THEN rest
          ELSE [rest EXCEPT !.n = @ + (IF live = "true" THEN 1 ELSE 0)]

\* An edge's write guard (EdgeApi::delete / restore) waits for every read
\* guard: a call blocked inside is_live keeps the read guard of its edge.
EdgeWriteFree(e) ==
  \A t \in CallerIds : ~(call[t].pc = "blocked" /\ call[t].e = e)

\* Node::add_or_restore_edge(edge) on node record nd, with ed the edges as
\* they are when it runs: [st, nd, ed, e].
add_or_restore_edge(t, ed, nd, new) ==
  LET f == FindDead(t, ed, nd.edges, 1, new)
  IN IF f.st = "found"
       THEN IF ~EdgeWriteFree(f.e)
              THEN [st |-> "wait", nd |-> nd, ed |-> ed, e |-> 0]
              ELSE [st |-> Edge_restore(ed[f.e]).res.k, nd |-> nd,
                    ed |-> [ed EXCEPT ![f.e] = Edge_restore(ed[f.e]).edge],
                    e |-> 0]
     ELSE IF f.st = "none"
       THEN [st |-> "Ok", nd |-> [nd EXCEPT !.edges = Append(@, new)],
             ed |-> ed, e |-> 0]
     ELSE [st |-> f.st, nd |-> nd, ed |-> ed, e |-> f.e]

-----------------------------------------------------------------------------
(* Reference counting.  A node is kept by the application's handle and by    *)
(* every allocated edge whose child it is; an edge is kept by every          *)
(* occurrence in an allocated node's edge collection.                        *)

Occurrences(es, e) == Cardinality({i \in 1..Len(es) : es[i] = e})

NodeStrong(nd, ed, n) ==
  BoolVal(nd[n].handle)
    + Cardinality({e \in EdgeIds : ed[e].st = "alloc" /\ ed[e].child = n})

EdgeStrong(nd, ed, e) ==
  Cardinality({n \in NodeIds : nd[n].st = "alloc" /\ Occurrences(nd[n].edges, e) > 0})

\* Dropping what has no strong reference left, until nothing more drops.
RECURSIVE Collect(_, _)
Collect(nd, ed) ==
  LET deadN == {n \in NodeIds : nd[n].st = "alloc" /\ NodeStrong(nd, ed, n) = 0}
      deadE == {e \in EdgeIds : ed[e].st = "alloc" /\ EdgeStrong(nd, ed, e) = 0}
  IN IF deadN # {}
       THEN Collect([n \in NodeIds |-> IF n \in deadN THEN FreedNode ELSE nd[n]], ed)
     ELSE IF deadE # {}
       THEN Collect(nd, [e \in EdgeIds |->
                           IF e \in deadE THEN [ed[e] EXCEPT !.st = "freed"]
                           ELSE ed[e]])
     ELSE [node |-> nd, edge |-> ed]

-----------------------------------------------------------------------------
(* Calls.                                                                    *)

NoCall == [op |-> "none", a |-> 0, b |-> 0, v |-> 0, pc |-> "idle",
           res |-> Pending, e |-> 0]

NewCall(op, a, b, v) ==
  [op |-> op, a |-> a, b |-> b, v |-> v, pc |-> "start", res |-> Pending, e |-> 0]

Appends == LET RECURSIVE Sum(_)
               Sum(n) == IF n = 0 THEN 0
                         ELSE Sum(n - 1) + (IF node[n].st = "alloc"
                                              THEN Len(node[n].instances) - 1
                                              ELSE 0)
           IN Sum(MaxNodes)

Handles == {n \in NodeIds : node[n].st = "alloc" /\ node[n].handle}

LastN(s, k) == IF Len(s) <= k THEN s ELSE SubSeq(s, Len(s) - k + 1, Len(s))

\* The trail once caller t starts its next call: the call it has just
\* finished extends the trail when it is a connect or remove_child that
\* returned Ok on the trail's pair, and otherwise starts or clears it.
NextTrail(t) ==
  LET c    == call[t]
      item == [op |-> c.op, a |-> c.a, b |-> c.b]
  IN IF c.op \in {"connect", "remove_child"} /\ c.pc = "idle" /\ c.res = Ok
       THEN IF trail[t] # <<>> /\ trail[t][1].a = c.a /\ trail[t][1].b = c.b
              THEN LastN(Append(trail[t], item), MaxTrail)
              ELSE <<item>>
       ELSE <<>>

\* The call of t returns res.  Of a finished call the record keeps the
\* operation and its result, and besides the nodes of a connect or
\* remove_child that returned Ok (the trail needs them).
Return(t, res) ==
  LET keep == call[t].op \in {"connect", "remove_child"} /\ res = Ok
  IN call' = [call EXCEPT ![t].pc = "idle", ![t].res = res, ![t].v = 0,
                          ![t].a = IF keep THEN @ ELSE 0,
                          ![t].b = IF keep THEN @ ELSE 0]

\* The call of t ends in a panic: the stack unwinds.
Panic(t, kind) == /\ lock' = Unwind(t)
                  /\ Return(t, Err(kind))

\* The call of t asked for a lock it write-holds itself: it blocks for ever
\* (holding the read guard of edge e, if it is inside is_live), or panics.
SelfLock(t, e) ==
  \/ /\ call' = [call EXCEPT ![t].pc = "blocked", ![t].e = e]
     /\ UNCHANGED lock
  \/ Panic(t, "PanicDeadlock")

\* How a body that did not come to a value ends: st is "self" or "panic".
Abort(t, st, e) ==
  IF st = "self" THEN SelfLock(t, e) ELSE Panic(t, "PanicPoisoned")

-----------------------------------------------------------------------------
(* The application.                                                          *)

\* NodeApi::new_ref(value): a caller constructs a node.
new_ref(t) ==
  /\ t \in cfg.callers
  /\ call[t].pc = "idle"
  /\ \E n \in NodeIds, value \in Values :
       /\ node[n].st = "unborn"
       /\ \A m \in NodeIds : m < n => node[m].st # "unborn"
       /\ n <= cfg.nodes
       /\ node' = [node EXCEPT ![n] = Node_new(value)]
       /\ call' = [call EXCEPT ![t] =
                     [NewCall("new_ref", n, 0, value) EXCEPT !.pc = "idle", !.res = Ok]]
  /\ trail' = [trail EXCEPT ![t] = NextTrail(t)]
  /\ UNCHANGED <<lock, edge, cfg>>

\* A caller starts a call on handles the application holds.
Invoke(t) ==
  /\ t \in cfg.callers
  /\ call[t].pc = "idle"
  /\ \E a \in Handles :
       \/ \E value \in Values :
            /\ Appends < cfg.appends
            /\ call' = [call EXCEPT ![t] = NewCall("update", a, 0, value)]
       \/ \E op \in {"delete", "restore"} :
            /\ Appends < cfg.appends
            /\ call' = [call EXCEPT ![t] = NewCall(op, a, 0, 0)]
       \/ \E op \in {"is_deleted", "value", "edge_count"} :
            call' = [call EXCEPT ![t] = NewCall(op, a, 0, 0)]
       \/ \E b \in Handles, op \in {"is_parent_of", "remove_child"} :
            call' = [call EXCEPT ![t] = NewCall(op, a, b, 0)]
       \/ \E b \in Handles :
            /\ \E e \in EdgeIds : edge[e].st = "unborn"
            /\ call' = [call EXCEPT ![t] = NewCall("connect", a, b, 0)]
  /\ trail' = [trail EXCEPT ![t] = NextTrail(t)]
  /\ UNCHANGED <<node, lock, edge, cfg>>

\* The application drops its handle of a node it is not calling on.
DropHandle(n) ==
  /\ n \in Handles
  /\ \A t \in cfg.callers : call[t].pc = "idle" \/ n \notin {call[t].a, call[t].b}
  /\ LET kept == Collect([node EXCEPT ![n].handle = FALSE], edge)
     IN /\ node' = kept.node
        /\ edge' = kept.edge
        /\ lock' = [m \in NodeIds |->
                      IF kept.node[m].st = "freed" THEN FreeLock ELSE lock[m]]
  /\ UNCHANGED <<call, trail, cfg>>

-----------------------------------------------------------------------------
(* impl NodeApi for NodeRef: one lock acquisition, then the Node method.     *)

At(t, op, pc) == t \in cfg.callers /\ call[t].op = op /\ call[t].pc = pc

\* self.write()?.update(value)
NodeApi_update(t) ==
  /\ At(t, "update", "start")
  /\ TryWrite(t, call[t].a) \in {"ok", "poisoned"}
  /\ IF TryWrite(t, call[t].a) = "poisoned"
       THEN Return(t, Err("RwLockError")) /\ UNCHANGED node
       ELSE /\ node' = [node EXCEPT ![call[t].a] = Node_update(@, call[t].v).node]
            /\ Return(t, Node_update(node[call[t].a], call[t].v).res)
  /\ UNCHANGED <<lock, edge, trail, cfg>>

\* self.write()?.delete()
NodeApi_delete(t) ==
  /\ At(t, "delete", "start")
  /\ TryWrite(t, call[t].a) \in {"ok", "poisoned"}
  /\ IF TryWrite(t, call[t].a) = "poisoned"
       THEN Return(t, Err("RwLockError")) /\ UNCHANGED node
       ELSE /\ node' = [node EXCEPT ![call[t].a] = Node_delete(@).node]
            /\ Return(t, Node_delete(node[call[t].a]).res)
  /\ UNCHANGED <<lock, edge, trail, cfg>>

\* self.write()?.restore()
NodeApi_restore(t) ==
  /\ At(t, "restore", "start")
  /\ TryWrite(t, call[t].a) \in {"ok", "poisoned"}
  /\ IF TryWrite(t, call[t].a) = "poisoned"
       THEN Return(t, Err("RwLockError")) /\ UNCHANGED node
       ELSE /\ node' = [node EXCEPT ![call[t].a] = Node_restore(@).node]
            /\ Return(t, Node_restore(node[call[t].a]).res)
  /\ UNCHANGED <<lock, edge, trail, cfg>>

\* self.read().unwrap().is_deleted()
NodeApi_is_deleted(t) ==
  /\ At(t, "is_deleted", "start")
  /\ ReadUnwrap(t, call[t].a) \in {"ok", "panic"}
  /\ IF ReadUnwrap(t, call[t].a) = "panic"
       THEN Return(t, Err("PanicPoisoned"))
       ELSE Return(t, Ret("Ok", BoolVal(Node_is_deleted(node[call[t].a]))))
  /\ UNCHANGED <<node, lock, edge, trail, cfg>>

\* Ok(self.read()?.value()?.into())
NodeApi_value(t) ==
  /\ At(t, "value", "start")
  /\ TryRead(t, call[t].a) \in {"ok", "poisoned"}
  /\ IF TryRead(t, call[t].a) = "poisoned"
       THEN Return(t, Err("RwLockError"))
       ELSE Return(t, Node_value(node[call[t].a]))
  /\ UNCHANGED <<node, lock, edge, trail, cfg>>

-----------------------------------------------------------------------------
(* The traversing calls: the node's guard is held while edges are filtered.  *)

Hold(t, n, mode) ==
  lock' = [lock EXCEPT ![n] = IF mode = "write"
                                THEN [@ EXCEPT !.writer = t]
                                ELSE [@ EXCEPT !.readers = @ \cup {t}]]

Goto(t, pc) == call' = [call EXCEPT ![t].pc = pc]

\* Node::edge_count under the guard: Ok(self.edges().count())
Node_edge_count(t, nd) == CountLive(t, edge, nd.edges, 1)

\* Node::is_parent_of under the guard
Node_is_parent_of(t, nd, connection) ==
  FindLiveChild(t, edge, nd.edges, 1, connection)

\* self.read()?  of NodeApi::edge_count
edge_count_lock(t) ==
  /\ At(t, "edge_count", "start")
  /\ TryRead(t, call[t].a) \in {"ok", "poisoned"}
  /\ IF TryRead(t, call[t].a) = "poisoned"
       THEN Return(t, Err("RwLockError")) /\ UNCHANGED lock
       ELSE Hold(t, call[t].a, "read") /\ Goto(t, "body")
  /\ UNCHANGED <<node, edge, trail, cfg>>

\* .edge_count() of NodeApi::edge_count
edge_count_body(t) ==
  /\ At(t, "edge_count", "body")
  /\ LET r == Node_edge_count(t, node[call[t].a])
     IN /\ r.st # "wait"
        /\ IF r.st = "ok"
             THEN lock' = Release(t) /\ Return(t, Ret("Ok", r.n))
             ELSE Abort(t, r.st, r.e)
  /\ UNCHANGED <<node, edge, trail, cfg>>

\* self.read().unwrap()  of NodeApi::is_parent_of
is_parent_of_lock(t) ==
  /\ At(t, "is_parent_of", "start")
  /\ ReadUnwrap(t, call[t].a) \in {"ok", "panic"}
  /\ IF ReadUnwrap(t, call[t].a) = "panic"
       THEN Return(t, Err("PanicPoisoned")) /\ UNCHANGED lock
       ELSE Hold(t, call[t].a, "read") /\ Goto(t, "body")
  /\ UNCHANGED <<node, edge, trail, cfg>>

\* .is_parent_of(connection)  of NodeApi::is_parent_of
is_parent_of_body(t) ==
  /\ At(t, "is_parent_of", "body")
  /\ LET r == Node_is_parent_of(t, node[call[t].a], call[t].b)
     IN /\ r.st # "wait"
        /\ IF r.st \in {"found", "none"}
             THEN lock' = Release(t) /\ Return(t, Ret("Ok", BoolVal(r.st = "found")))
             ELSE Abort(t, r.st, r.e)
  /\ UNCHANGED <<node, edge, trail, cfg>>

\* Node::remove_child after its deleted_check, under the write guard:
\* [st, edge, e] with st the result, "wait", "self" or "panic".
Node_remove_child(t, nd, child) ==
  LET f == FindLiveChild(t, edge, nd.edges, 1, child)
  IN IF f.st = "found"
       THEN IF ~EdgeWriteFree(f.e) THEN [st |-> "wait", edge |-> edge, e |-> 0]
            ELSE [st |-> Edge_delete(edge[f.e]).res.k,
                  edge |-> [edge EXCEPT ![f.e] = Edge_delete(edge[f.e]).edge],
                  e |-> 0]
     ELSE IF f.st = "none" THEN [st |-> "EdgeNotFound", edge |-> edge, e |-> 0]
     ELSE [st |-> f.st, edge |-> edge, e |-> f.e]

\* self.write()?  of NodeApi::remove_child, and Node::remove_child's
\* deleted_check
remove_child_lock(t) ==
  /\ At(t, "remove_child", "start")
  /\ TryWrite(t, call[t].a) \in {"ok", "poisoned"}
  /\ IF TryWrite(t, call[t].a) = "poisoned"
       THEN Return(t, Err("RwLockError")) /\ UNCHANGED lock
     ELSE IF deleted_check(node[call[t].a]) # Ok
       THEN Return(t, deleted_check(node[call[t].a])) /\ UNCHANGED lock
     ELSE Hold(t, call[t].a, "write") /\ Goto(t, "body")
  /\ UNCHANGED <<node, edge, trail, cfg>>

\* the search and Edge delete of Node::remove_child
remove_child_body(t) ==
  /\ At(t, "remove_child", "body")
  /\ LET r == Node_remove_child(t, node[call[t].a], call[t].b)
     IN /\ r.st # "wait"
        /\ IF r.st \in {"self", "panic"}
             THEN Abort(t, r.st, r.e) /\ UNCHANGED edge
             ELSE /\ edge' = r.edge
                  /\ lock' = Release(t)
                  /\ Return(t, Err(r.st))
  /\ UNCHANGED <<node, trail, cfg>>

-----------------------------------------------------------------------------
(* NodeApi::connect_parent_child                                             *)

FreshEdge == CHOOSE e \in EdgeIds :
               edge[e].st = "unborn" /\ \A f \in EdgeIds : f < e => edge[f].st # "unborn"

\* ref_to_parent.write()?  and  parent.deleted_check()?
connect_parent(t) ==
  /\ At(t, "connect", "start")
  /\ TryWrite(t, call[t].a) \in {"ok", "poisoned"}
  /\ IF TryWrite(t, call[t].a) = "poisoned"
       THEN Return(t, Err("RwLockError")) /\ UNCHANGED lock
     ELSE IF deleted_check(node[call[t].a]) # Ok
       THEN Return(t, deleted_check(node[call[t].a])) /\ UNCHANGED lock
     ELSE Hold(t, call[t].a, "write") /\ Goto(t, "child")
  /\ UNCHANGED <<node, edge, trail, cfg>>

\* ref_to_child.write()?  and  child.deleted_check()?, the parent's guard held
connect_child(t) ==
  /\ At(t, "connect", "child")
  /\ TryWrite(t, call[t].b) # "wait"
  /\ IF TryWrite(t, call[t].b) = "self"
       THEN SelfLock(t, 0)
     ELSE IF TryWrite(t, call[t].b) = "poisoned"
       THEN lock' = Release(t) /\ Return(t, Err("RwLockError"))
     ELSE IF deleted_check(node[call[t].b]) # Ok
       THEN lock' = Release(t) /\ Return(t, deleted_check(node[call[t].b]))
     ELSE Hold(t, call[t].b, "write") /\ Goto(t, "body")
  /\ UNCHANGED <<node, edge, trail, cfg>>

\* Edge::new_ref and the two add_or_restore_edge calls, both guards held:
\* [st, node, edge, e], with node and edge as the call leaves them.
connect_edges(t, parent, child) ==
  LET new   == FreshEdge
      made  == [edge EXCEPT ![new] = Edge_new(parent, child)]
      first == add_or_restore_edge(t, made, node[parent], new)
      nd1   == [node EXCEPT ![parent] = first.nd]
      secnd == add_or_restore_edge(t, first.ed, node[child], new)
      nd2   == [nd1 EXCEPT ![child] = secnd.nd]
  IN IF first.st # "Ok"
       THEN [st |-> first.st, node |-> node, edge |-> edge, e |-> first.e]
       ELSE [st |-> secnd.st, node |-> Collect(nd2, secnd.ed).node,
             edge |-> Collect(nd2, secnd.ed).edge, e |-> secnd.e]

connect_body(t) ==
  /\ At(t, "connect", "body")
  /\ LET r == connect_edges(t, call[t].a, call[t].b)
     IN /\ r.st # "wait"
        /\ node' = r.node
        /\ edge' = r.edge
        /\ IF r.st \in {"self", "panic"}
             THEN Abort(t, r.st, r.e)
             ELSE lock' = Release(t) /\ Return(t, Err(r.st))
  /\ UNCHANGED <<trail, cfg>>

-----------------------------------------------------------------------------
(* Specifications.                                                           *)

InitWith(c) ==
  /\ cfg = c
  /\ node = [n \in NodeIds |-> UnbornNode]
  /\ lock = [n \in NodeIds |-> FreeLock]
  /\ edge = [e \in EdgeIds |-> UnbornEdge]
  /\ call = [t \in CallerIds |-> NoCall]
  /\ trail = [t \in CallerIds |-> <<>>]

\* One caller: calls follow one another.
Init == InitWith([callers |-> {1}, nodes |-> SeqNodes,
                  appends |-> SeqAppends, values |-> SeqValues])

\* Concurrent callers.
InitConc == InitWith([callers |-> CallerIds, nodes |-> ConcNodes,
                      appends |-> ConcAppends, values |-> ConcValues])

Next ==
  \/ \E t \in CallerIds :
       \/ new_ref(t)
       \/ Invoke(t)
       \/ NodeApi_update(t)
       \/ NodeApi_delete(t)
       \/ NodeApi_restore(t)
       \/ NodeApi_is_deleted(t)
       \/ NodeApi_value(t)
       \/ edge_count_lock(t)
       \/ edge_count_body(t)
       \/ is_parent_of_lock(t)
       \/ is_parent_of_body(t)
       \/ remove_child_lock(t)
       \/ remove_child_body(t)
       \/ connect_parent(t)
       \/ connect_child(t)
       \/ connect_body(t)
  \/ \E n \in NodeIds : DropHandle(n)

Spec == Init /\ [][Next]_vars

\* The calls alone: the application keeps its handles.
NextConc ==
  \E t \in CallerIds :
    \/ new_ref(t)
    \/ Invoke(t)
    \/ NodeApi_update(t)
    \/ NodeApi_delete(t)
    \/ NodeApi_restore(t)
    \/ NodeApi_is_deleted(t)
    \/ NodeApi_value(t)
    \/ edge_count_lock(t)
    \/ edge_count_body(t)
    \/ is_parent_of_lock(t)
    \/ is_parent_of_body(t)
    \/ remove_child_lock(t)
    \/ remove_child_body(t)
    \/ connect_parent(t)
    \/ connect_child(t)
    \/ connect_body(t)

SpecConc == InitConc /\ [][NextConc]_vars

-----------------------------------------------------------------------------
(* EdgeApi::delete and EdgeApi::restore called on an edge handle directly.   *)
(* No NodeApi operation hands out an edge handle; these are the calls code   *)
(* inside the crate can make, and SpecEdge adds them to the public calls.    *)

\* self.write()?.delete()
EdgeApi_delete(t) ==
  /\ t \in cfg.callers
  /\ call[t].pc = "idle"
  /\ \E e \in EdgeIds :
       /\ edge[e].st = "alloc"
       /\ EdgeWriteFree(e)
       /\ edge' = [edge EXCEPT ![e] = Edge_delete(@).edge]
       /\ call' = [call EXCEPT ![t] =
                     [NewCall("edge_delete", 0, 0, 0) EXCEPT
                        !.pc = "idle", !.e = e, !.res = Edge_delete(edge[e]).res]]
  /\ trail' = [trail EXCEPT ![t] = NextTrail(t)]
  /\ UNCHANGED <<node, lock, cfg>>

\* self.write()?.restore()
EdgeApi_restore(t) ==
  /\ t \in cfg.callers
  /\ call[t].pc = "idle"
  /\ \E e \in EdgeIds :
       /\ edge[e].st = "alloc"
       /\ EdgeWriteFree(e)
       /\ edge' = [edge EXCEPT ![e] = Edge_restore(@).edge]
       /\ call' = [call EXCEPT ![t] =
                     [NewCall("edge_restore", 0, 0, 0) EXCEPT
                        !.pc = "idle", !.e = e, !.res = Edge_restore(edge[e]).res]]
  /\ trail' = [trail EXCEPT ![t] = NextTrail(t)]
  /\ UNCHANGED <<node, lock, cfg>>

NextEdge ==
  \/ Next
  \/ \E t \in CallerIds : EdgeApi_delete(t) \/ EdgeApi_restore(t)

InitEdge == InitWith([callers |-> {1}, nodes |-> EdgeNodes,
                      appends |-> EdgeAppends, values |-> EdgeValues])

SpecEdge == InitEdge /\ [][NextEdge]_vars

-----------------------------------------------------------------------------
(* What a caller that holds no lock would get from a call made in the       *)
(* current state (thread 0).                                                *)

\* NodeApi::edge_count on node n
edge_count(n) ==
  IF TryRead(0, n) = "poisoned" THEN Err("RwLockError")
  ELSE IF TryRead(0, n) # "ok" THEN Err(TryRead(0, n))
  ELSE LET r == Node_edge_count(0, node[n])
       IN IF r.st = "ok" THEN Ret("Ok", r.n) ELSE Err(r.st)

\* NodeApi::is_parent_of on node n with connection m
is_parent_of(n, m) ==
  IF ReadUnwrap(0, n) # "ok" THEN Err(ReadUnwrap(0, n))
  ELSE LET r == Node_is_parent_of(0, node[n], m)
       IN IF r.st \in {"found", "none"} THEN Ret("Ok", BoolVal(r.st = "found"))
          ELSE Err(r.st)

\* EdgeApi::is_live on edge e
is_live(e) == Edge_is_live(0, edge[e])

\* The positions of node p's edge collection that hold a live edge from p
\* to c.
LiveEdgesTo(p, c) ==
  {i \in 1..Len(node[p].edges) :
     LET e == node[p].edges[i]
     IN edge[e].parent = p /\ edge[e].child = c /\ is_live(e) = "true"}

\* The call of caller t stops running in this step: it returns, panics, or
\* blocks for ever.
Stops(t) ==
  /\ call[t].pc \notin {"idle", "blocked"}
  /\ call'[t].pc \in {"idle", "blocked"}

\* The call of caller t returns Ok in this step.
ReturnsOk(t) ==
  /\ call[t].pc \notin {"idle", "blocked"}
  /\ call'[t].pc = "idle"
  /\ call'[t].res = Ok

-----------------------------------------------------------------------------
(* Properties.                                                               *)

\* C6 (SpecEdge): liveness of an edge is derived.  In every reachable state
\* and for every edge E, whenever is_live comes to a value, that value is
\* true iff E's own deleted_at is unset and E's child is not soft-deleted
\* and E's parent back-reference resolves and the resolved parent is not
\* soft-deleted; in particular an unresolvable parent gives false.
C6_LiveIsConjunction ==
  \A e \in EdgeIds :
    (edge[e].st = "alloc" /\ is_live(e) \in {"true", "false"}) =>
      ((is_live(e) = "true") <=>
         /\ ~edge[e].deleted_at
         /\ ~node[edge[e].child].deleted_at
         /\ node[edge[e].parent].st = "alloc"
         /\ ~node[edge[e].parent].deleted_at)

\* An edge whose parent was dropped: marker unset, child not deleted, and
\* is_live is false.
C6_DroppedParentSeen ==
  \E e \in EdgeIds :
    /\ edge[e].st = "alloc"
    /\ node[edge[e].parent].st = "freed"
    /\ ~edge[e].deleted_at
    /\ ~node[edge[e].child].deleted_at
    /\ is_live(e) = "false"

\* The edge e would be live but for the soft deletion of its endpoint n.
DeadOnlyBy(e, n) ==
  /\ ~edge[e].deleted_at
  /\ node[n].deleted_at
  /\ \A m \in {edge[e].parent, edge[e].child} \ {n} :
       /\ node[m].st = "alloc"
       /\ ~node[m].deleted_at
       /\ TryRead(0, m) = "ok"

\* C7 (Spec): a node delete or restore that returns Ok changes no edge (so
\* no edge's own deleted_at); the delete of an endpoint of a live edge E
\* makes E.is_live() false, and the restore of the endpoint whose deletion
\* alone kept E from being live makes E.is_live() true again.
C7_NodeDeleteRestoreFrame ==
  [][\A t \in CallerIds, n \in NodeIds :
       (call[t].op \in {"delete", "restore"} /\ call[t].a = n /\ ReturnsOk(t)) =>
         /\ edge' = edge
         /\ \A e \in EdgeIds :
              (edge[e].st = "alloc" /\ n \in {edge[e].parent, edge[e].child}) =>
                /\ (call[t].op = "delete" /\ is_live(e) = "true")
                     => is_live(e)' = "false"
                /\ (call[t].op = "restore" /\ DeadOnlyBy(e, n))
                     => is_live(e)' = "true"]_vars

\* A restore has returned Ok on an endpoint of an edge, and the edge is live.
C7_RestoredEndpointLive ==
  \E t \in CallerIds, e \in EdgeIds :
    /\ call[t].op = "restore" /\ call[t].pc = "idle" /\ call[t].res = Ok
    /\ edge[e].st = "alloc"
    /\ is_live(e) = "true"
    /\ \E n \in {edge[e].parent, edge[e].child} :
         /\ Len(node[n].instances) = 3
         /\ node[n].instances[2].instance_type = "Deleted"
         /\ node[n].instances[3].instance_type = "Restored"

\* C8 (Spec): construction.  The step that constructs a node with value v
\* leaves it not deleted, with value() = v, a history of exactly one
\* Instance of kind Created, an empty edge collection, and a free lock.
C8_Construction ==
  [][\A n \in NodeIds :
       (node[n].st = "unborn" /\ node'[n].st = "alloc") =>
         \E t \in CallerIds :
           /\ call'[t].op = "new_ref" /\ call'[t].a = n /\ call'[t].res = Ok
           /\ call'[t].v \in Values
           /\ ~Node_is_deleted(node'[n])
           /\ Node_value(node'[n]) = Ret("Ok", call'[t].v)
           /\ Len(node'[n].instances) = 1
           /\ node'[n].instances[1].instance_type = "Created"
           /\ node'[n].edges = <<>>
           /\ lock'[n] = FreeLock]_vars

\* A node has just been constructed with a value other than the first.
C8_Constructed ==
  \E t \in CallerIds, n \in NodeIds :
    /\ call[t].op = "new_ref" /\ call[t].a = n /\ call[t].v > 1
    /\ node[n].st = "alloc"
    /\ node[n].instances = <<new_created(call[t].v)>>

\* C9 (Spec): Node::delete and Node::restore validate the transition.  When
\* a delete or restore gets the node's guard (the lock is not poisoned):
\* delete on a soft-deleted node returns DeleteDeletedNode, restore on a node
\* that is not soft-deleted returns RestoreNotDeletedNode, and both leave the
\* node (deleted_at, history, edge collection) unchanged; delete on a
\* non-deleted node and restore on a deleted node return Ok and flip
\* is_deleted().
C9_TransitionValidated ==
  [][\A t \in CallerIds, n \in NodeIds :
       (/\ call[t].op \in {"delete", "restore"} /\ call[t].a = n
        /\ call[t].pc = "start" /\ call'[t].pc = "idle"
        /\ ~lock[n].poisoned) =>
         IF call[t].op = "delete"
           THEN IF Node_is_deleted(node[n])
                  THEN call'[t].res = Err("DeleteDeletedNode") /\ node'[n] = node[n]
                  ELSE call'[t].res = Ok /\ Node_is_deleted(node'[n])
           ELSE IF ~Node_is_deleted(node[n])
                  THEN call'[t].res = Err("RestoreNotDeletedNode") /\ node'[n] = node[n]
                  ELSE call'[t].res = Ok /\ ~Node_is_deleted(node'[n])]_vars

\* A delete has returned DeleteDeletedNode (on a node deleted before).
C9_SecondDeleteRefused ==
  \E t \in CallerIds :
    /\ call[t].op = "delete" /\ call[t].pc = "idle"
    /\ call[t].res = Err("DeleteDeletedNode")
    /\ \E n \in NodeIds : node[n].st = "alloc" /\ node[n].deleted_at

TrailIs(t, ops, p, c) ==
  /\ Len(trail[t]) = Len(ops)
  /\ \A i \in 1..Len(ops) :
       trail[t][i] = [op |-> ops[i], a |-> p, b |-> c]

\* C1 (Spec): connect is idempotent.  A connect(P, C) that directly follows
\* a connect(P, C) that returned Ok returns Ok itself, and leaves exactly one
\* live edge from P to C in P's edge collection and P.edge_count() == 1.
C1_ConnectIdempotent ==
  [][\A t \in CallerIds, p \in NodeIds, c \in NodeIds :
       (/\ call[t].op = "connect" /\ call[t].a = p /\ call[t].b = c
        /\ TrailIs(t, <<"connect">>, p, c)
        /\ Stops(t)) =>
         /\ call'[t].pc = "idle" /\ call'[t].res = Ok
         /\ Cardinality(LiveEdgesTo(p, c))' = 1
         /\ edge_count(p)' = Ret("Ok", 1)]_vars

\* A second connect(P, C) directly after a connect(P, C) that returned Ok
\* has reached the filtering of P's edge collection.
C1_SecondConnectRuns ==
  \E t \in CallerIds, p \in NodeIds, c \in NodeIds :
    /\ call[t].op = "connect" /\ call[t].a = p /\ call[t].b = c
    /\ call[t].pc = "body"
    /\ TrailIs(t, <<"connect">>, p, c)
    /\ Len(node[p].edges) = 1

\* C2 (SpecEdge): round trip.  A connect(P, C) made while P's and C's
\* collections hold the disconnected edge of an earlier connect(P, C) (its
\* own deleted_at set, both nodes not deleted, no lock poisoned) returns Ok
\* and restores that edge: no edge is appended to P's or C's collection,
\* the edge from P to C in P's collection is the original one, live again,
\* and P.edge_count() == 1.
C2_RoundTripRestores ==
  [][\A t \in CallerIds, p \in NodeIds, c \in NodeIds :
       (/\ call[t].op = "connect" /\ call[t].a = p /\ call[t].b = c
        /\ p # c
        /\ \E e \in EdgeIds :
             /\ node[p].edges = <<e>> /\ node[c].edges = <<e>>
             /\ edge[e].parent = p /\ edge[e].child = c
             /\ edge[e].deleted_at
        /\ \A n \in {p, c} : ~node[n].deleted_at /\ ~lock[n].poisoned
        /\ Stops(t)) =>
         /\ call'[t].pc = "idle" /\ call'[t].res = Ok
         /\ node'[p].edges = node[p].edges
         /\ node'[c].edges = node[c].edges
         /\ Cardinality(LiveEdgesTo(p, c))' = 1
         /\ edge_count(p)' = Ret("Ok", 1)]_vars

\* The connect after the disconnect has returned Ok, and P's collection
\* holds the disconnected edge and a second edge from P to C.
C2_DuplicateAppended ==
  \E t \in CallerIds, p \in NodeIds, c \in NodeIds :
    /\ call[t].op = "connect" /\ call[t].pc = "idle" /\ call[t].res = Ok
    /\ call[t].a = p /\ call[t].b = c
    /\ Len(node[p].edges) = 2
    /\ node[p].edges[1] # node[p].edges[2]
    /\ edge[node[p].edges[1]].deleted_at
    /\ \A i \in 1..2 : /\ edge[node[p].edges[i]].parent = p
                        /\ edge[node[p].edges[i]].child = c

\* Callers t and u are each inside connect, t holding the write guard of a
\* and waiting for that of b, u holding b and waiting for a.
ConnectDeadlock(t, u) ==
  /\ t # u
  /\ call[t].op = "connect" /\ call[t].pc = "child"
  /\ call[u].op = "connect" /\ call[u].pc = "child"
  /\ call[t].a # call[t].b
  /\ call[u].a = call[t].b /\ call[u].b = call[t].a
  /\ lock[call[t].a].writer = t
  /\ lock[call[u].a].writer = u

\* C3 (SpecConc): deadlock freedom of connect.  Two callers running
\* connect(A, B) and connect(B, A) never reach a state where each waits for
\* the node lock the other holds.
C3_NoConnectDeadlock ==
  \A t \in CallerIds, u \in CallerIds : ~ConnectDeadlock(t, u)

\* C4 (Spec): no operation blocks.  No call ever asks for a lock on a node
\* whose write guard the same call holds: no call is blocked on itself, and
\* none has panicked on such a request.
C4_NoSelfLock ==
  \A t \in CallerIds :
    /\ call[t].pc # "blocked"
    /\ call[t].res # Err("PanicDeadlock")

\* C5 (Spec): the connect/disconnect scenario.  When connect(N1, N2) returns
\* Ok, N1.is_parent_of(N2) is true and N1.edge_count() == 1; the
\* N1.remove_child(N2) that follows returns Ok, and then
\* N1.edge_count() == 0 and N1.is_parent_of(N2) is false.
C5_ConnectDisconnect ==
  [][\A t \in CallerIds, p \in NodeIds, c \in NodeIds :
       /\ (/\ call[t].op = "connect" /\ call[t].a = p /\ call[t].b = c
           /\ ReturnsOk(t)) =>
             /\ is_parent_of(p, c)' = Ret("Ok", 1)
             /\ edge_count(p)' = Ret("Ok", 1)
       /\ (/\ call[t].op = "remove_child" /\ call[t].a = p /\ call[t].b = c
           /\ TrailIs(t, <<"connect">>, p, c)
           /\ Stops(t)) =>
             /\ call'[t].pc = "idle" /\ call'[t].res = Ok
             /\ edge_count(p)' = Ret("Ok", 0)
             /\ is_parent_of(p, c)' = Ret("Ok", 0)]_vars

\* connect(N1, N2) has returned Ok, N1.is_parent_of(N2) is true and
\* N1.edge_count() == 1.
C5_Connected ==
  \E t \in CallerIds, p \in NodeIds, c \in NodeIds :
    /\ call[t].op = "connect" /\ call[t].pc = "idle" /\ call[t].res = Ok
    /\ call[t].a = p /\ call[t].b = c
    /\ is_parent_of(p, c) = Ret("Ok", 1)
    /\ edge_count(p) = Ret("Ok", 1)

\* The call of caller t is one the deleted-check must refuse: an update or
\* remove_child on a soft-deleted node, or a connect whose parent or child is
\* soft-deleted; and the locks the call takes on its way to the check are
\* not poisoned.
RefusedByDeletedCheck(t) ==
  /\ call[t].pc \notin {"idle", "blocked"}
  /\ \/ /\ call[t].op \in {"update", "remove_child"}
        /\ ~lock[call[t].a].poisoned
        /\ node[call[t].a].deleted_at
     \/ /\ call[t].op = "connect"
        /\ ~lock[call[t].a].poisoned
        /\ \/ node[call[t].a].deleted_at
           \/ ~lock[call[t].b].poisoned /\ node[call[t].b].deleted_at

\* C11 (Spec): the deleted-check.  update(v) and remove_child(c) on a
\* soft-deleted node, and connect(P, C) with P or C soft-deleted, change
\* nothing in any of their steps (no Instance appended, no edge created,
\* restored or deleted, no edge collection changed) and return
\* OperationOnDeletedNode.
C11_DeletedCheck ==
  [][\A t \in CallerIds :
       (RefusedByDeletedCheck(t) /\ call'[t] # call[t]) =>
         /\ node' = node
         /\ edge' = edge
         /\ call'[t].pc \in {"idle", "child"}
         /\ call'[t].pc = "idle" => call'[t].res = Err("OperationOnDeletedNode")
         /\ call'[t].pc = "idle" => \A n \in NodeIds : lock'[n].writer = 0]_vars

\* A connect has returned OperationOnDeletedNode while an edge exists
\* between a deleted and a non-deleted node, both collections still holding
\* just that edge.
C11_ConnectRefused ==
  \E t \in CallerIds, e \in EdgeIds :
    /\ call[t].op = "connect" /\ call[t].pc = "idle"
    /\ call[t].res = Err("OperationOnDeletedNode")
    /\ edge[e].st = "alloc" /\ ~edge[e].deleted_at
    /\ node[edge[e].child].deleted_at
    /\ node[edge[e].parent].st = "alloc" /\ ~node[edge[e].parent].deleted_at
    /\ node[edge[e].parent].edges = <<e>>
    /\ node[edge[e].child].edges = <<e>>
    /\ \A n \in NodeIds : ~lock[n].poisoned

\* The conjunction Edge::is_live computes for edge e, read off the state
\* (whoever holds the locks).
LiveNow(e) ==
  /\ edge[e].st = "alloc"
  /\ ~edge[e].deleted_at
  /\ ~node[edge[e].child].deleted_at
  /\ node[edge[e].parent].st = "alloc"
  /\ ~node[edge[e].parent].deleted_at

\* The live edges in node p's collection whose child is c.
LiveWithChild(p, c) ==
  {e \in EdgeIds : /\ Occurrences(node[p].edges, e) > 0
                   /\ LiveNow(e)
                   /\ edge[e].child = c}

\* C12 (Spec): disconnect.  P.remove_child(C) on a non-deleted P (its guard
\* obtained) changes no node; when P's collection has no live edge whose
\* child is C it returns EdgeNotFound and changes no edge; when it has one,
\* it returns Ok and exactly that edge's own deleted_at becomes set.
C12_RemoveChild ==
  [][\A t \in CallerIds, p \in NodeIds, c \in NodeIds :
       (/\ call[t].op = "remove_child" /\ call[t].a = p /\ call[t].b = c
        /\ call[t].pc = "body"
        /\ Stops(t)) =>
         /\ node' = node
         /\ call'[t].pc = "idle"
         /\ IF LiveWithChild(p, c) = {}
              THEN call'[t].res = Err("EdgeNotFound") /\ edge' = edge
              ELSE /\ call'[t].res = Ok
                   /\ \E e \in LiveWithChild(p, c) :
                        edge' = [edge EXCEPT ![e].deleted_at = TRUE]]_vars

\* remove_child has returned EdgeNotFound on nodes that were never connected.
C12_NeverConnected ==
  \E t \in CallerIds :
    /\ call[t].op = "remove_child" /\ call[t].pc = "idle"
    /\ call[t].res = Err("EdgeNotFound")
    /\ \A e \in EdgeIds : edge[e].st = "unborn"

\* C13 (Spec): the direction of is_parent_of.  In every reachable state
\* where N.is_parent_of(other) returns, it is true iff N's edge collection
\* holds a live edge whose parent is N and whose child is other; so after
\* connect(P, C) alone, C.is_parent_of(C) and C.is_parent_of(P) are false.
C13_ParentDirection ==
  \A n \in NodeIds, other \in NodeIds :
    (/\ node[n].st = "alloc" /\ node[other].st = "alloc"
     /\ is_parent_of(n, other).k = "Ok") =>
      ((is_parent_of(n, other).v = 1) <=> (LiveEdgesTo(n, other) # {}))

\* After connect(P, C): P.is_parent_of(C) is true and C.is_parent_of(P) is
\* false.
C13_ParentSeesChild ==
  \E p \in NodeIds, c \in NodeIds :
    /\ p # c
    /\ node[p].st = "alloc" /\ node[c].st = "alloc"
    /\ LiveEdgesTo(p, c) # {}
    /\ is_parent_of(p, c) = Ret("Ok", 1)
    /\ is_parent_of(c, p) = Ret("Ok", 0)

\* The nodes node n owns directly: the children of the edges in its
\* collection (a node owns its edge handles, an edge owns its child; the
\* parent reference owns nothing).
OwnedBy(n) ==
  {edge[node[n].edges[i]].child : i \in 1..Len(node[n].edges)}

\* The nodes owned, directly or through other nodes, by the nodes of S:
\* k rounds of following OwnedBy.
RECURSIVE OwnedWithin(_, _)
OwnedWithin(S, k) ==
  LET step == UNION {OwnedBy(n) : n \in S}
  IN IF k = 0 THEN {} ELSE step \cup OwnedWithin(step, k - 1)

\* C14 (Spec): no strong-ownership cycle.  In every reachable state no node
\* owns itself, directly or through other nodes.
C14_NoOwnershipCycle ==
  \A n \in NodeIds :
    node[n].st = "alloc" => n \notin OwnedWithin({n}, MaxNodes)

\* A node is still allocated although the application holds no handle of
\* any node.
C14_Leaked ==
  /\ Handles = {}
  /\ \E n \in NodeIds : node[n].st = "alloc"

\* The lock of edge e's child, or of its resolvable parent, is poisoned.
PoisonedPeer(e) ==
  \/ lock[edge[e].child].poisoned
  \/ node[edge[e].parent].st = "alloc" /\ lock[edge[e].parent].poisoned

\* The positions of node n's collection whose edge is live and has no
\* poisoned peer: what filtering keeps when poison is swallowed to false.
KeptByFilter(n) ==
  {i \in 1..Len(node[n].edges) :
     LiveNow(node[n].edges[i]) /\ ~PoisonedPeer(node[n].edges[i])}

\* C15 (Spec): lock poisoning is swallowed in traversal.  edge_count and
\* is_parent_of, run under the node's read guard, treat an edge whose child
\* or parent lock is poisoned as not live and go on: they return the count
\* of, resp. the search among, the remaining live edges, and neither panic
\* nor return an error.
C15_PoisonSwallowed ==
  [][\A t \in CallerIds, n \in NodeIds :
       (call[t].a = n /\ call[t].pc = "body" /\ Stops(t)) =>
         /\ call[t].op = "edge_count" =>
              call'[t].res = Ret("Ok", Cardinality(KeptByFilter(n)))
         /\ (call[t].op = "is_parent_of" /\ ~lock[call[t].b].poisoned) =>
              call'[t].res =
                Ret("Ok", BoolVal(\E i \in KeptByFilter(n) :
                                    edge[node[n].edges[i]].child = call[t].b))]_vars

\* An edge_count is filtering a collection that holds an edge with a
\* poisoned peer.
C15_FilteringPoisonedPeer ==
  \E t \in CallerIds :
    /\ call[t].op = "edge_count" /\ call[t].pc = "body"
    /\ \E i \in 1..Len(node[call[t].a].edges) :
         /\ PoisonedPeer(node[call[t].a].edges[i])
         /\ ~edge[node[call[t].a].edges[i]].deleted_at

\* The operations of NodeApi that take their node's lock with `?`.
Surfacing ==
  {"update", "delete", "restore", "value", "remove_child", "edge_count", "connect"}

\* The call of caller t is about to ask for a lock that is poisoned: the
\* lock of its node, or inside connect that of the child.
MeetsPoison(t) ==
  /\ call[t].op \in Surfacing
  /\ \/ call[t].pc = "start" /\ lock[call[t].a].poisoned
     \/ /\ call[t].op = "connect" /\ call[t].pc = "child"
        /\ call[t].b # call[t].a /\ lock[call[t].b].poisoned

\* The call of caller t is on a node whose lock is poisoned (for connect:
\* the parent or the child).
OnPoisoned(t) ==
  /\ call[t].op \in Surfacing
  /\ call[t].pc \notin {"idle", "blocked"}
  /\ \/ lock[call[t].a].poisoned
     \/ call[t].op = "connect" /\ lock[call[t].b].poisoned

\* C16 (Spec): lock poisoning is surfaced by direct mutation.  update,
\* delete, restore, value, remove_child, edge_count and connect that ask for
\* a poisoned lock of their node return RwLockError in that step, without
\* panicking, and leave every node (deleted_at, history, edge collection)
\* and every edge unchanged.  A call on a node with a poisoned lock changes
\* nothing in any step and ends with a typed error: RwLockError, or, for a
\* connect refused at its soft-deleted parent before the child's poisoned
\* lock is asked for, OperationOnDeletedNode.
C16_PoisonSurfaced ==
  [][\A t \in CallerIds :
       /\ (MeetsPoison(t) /\ call'[t] # call[t]) =>
            /\ call'[t].pc = "idle"
            /\ call'[t].res = Err("RwLockError")
            /\ node' = node /\ edge' = edge
            /\ \A n \in NodeIds : lock'[n].writer = 0 /\ lock'[n].readers = {}
       /\ (OnPoisoned(t) /\ call'[t] # call[t]) =>
            /\ node' = node /\ edge' = edge
            /\ call'[t].pc \in {"idle", "child"}
            /\ call'[t].pc = "idle" =>
                 call'[t].res \in {Err("RwLockError"),
                                   Err("OperationOnDeletedNode")}]_vars

\* An update has returned RwLockError, and a poisoned node still has its
\* construction history.
C16_UpdateRefused ==
  \E t \in CallerIds, n \in NodeIds :
    /\ call[t].op = "update" /\ call[t].pc = "idle"
    /\ call[t].res = Err("RwLockError")
    /\ node[n].st = "alloc" /\ lock[n].poisoned
    /\ Len(node[n].instances) = 1

\* EdgeApi::read_child on edge e: self.read().unwrap().child.clone()
read_child(e) == Ret("Ok", edge[e].child)

\* EdgeApi::read_parent on edge e:
\* self.read().unwrap().parent.upgrade().unwrap().clone(); the unwrap of a
\* None panics.
read_parent(e) ==
  IF Upgrades(edge[e].parent) THEN Ret("Ok", edge[e].parent)
  ELSE Err("PanicUnwrapNone")

\* C17 (Spec): a vanished parent is an error value.  On every edge whose
\* parent node has been dropped, read_parent() returns
\* WeakReferenceUpgradeFailed (it does not panic) and read_child() still
\* returns the child handle.
C17_VanishedParentIsError ==
  \A e \in EdgeIds :
    (edge[e].st = "alloc" /\ ~Upgrades(edge[e].parent)) =>
      /\ read_parent(e) = Err("WeakReferenceUpgradeFailed")
      /\ read_child(e) = Ret("Ok", edge[e].child)

\* An edge whose parent has been dropped: read_child() returns the child,
\* which is still allocated.
C17_ChildStillReturned ==
  \E e \in EdgeIds :
    /\ edge[e].st = "alloc"
    /\ node[edge[e].parent].st = "freed"
    /\ read_child(e) = Ret("Ok", edge[e].child)
    /\ node[edge[e].child].st = "alloc"

\* C18 (Spec): self-parenting is accepted.  connect(N, N) on a non-deleted
\* node N (lock not poisoned) returns Ok, and N's edge collection then holds
\* a live edge whose parent and child are both N, so N.is_parent_of(N) is
\* true.
C18_SelfParentAccepted ==
  [][\A t \in CallerIds, n \in NodeIds :
       (/\ call[t].op = "connect" /\ call[t].a = n /\ call[t].b = n
        /\ ~node[n].deleted_at /\ ~lock[n].poisoned
        /\ Stops(t)) =>
         /\ call'[t].pc = "idle" /\ call'[t].res = Ok
         /\ LiveEdgesTo(n, n)' # {}
         /\ is_parent_of(n, n)' = Ret("Ok", 1)]_vars

\* A connect(N, N) on a fresh non-deleted node holds N's write guard and is
\* about to ask for the child's.
C18_SelfConnectRuns ==
  \E t \in CallerIds, n \in NodeIds :
    /\ call[t].op = "connect" /\ call[t].a = n /\ call[t].b = n
    /\ call[t].pc = "child"
    /\ lock[n].writer = t
    /\ ~node[n].deleted_at /\ node[n].edges = <<>>

\* Caller t makes the direct edge call op on edge e in this step.
EdgeCall(t, op, e) ==
  /\ call[t].pc = "idle" /\ call'[t].pc = "idle"
  /\ call'[t] # call[t]
  /\ call'[t].op = op /\ call'[t].e = e

\* An endpoint of edge e is soft-deleted.
EndpointDeleted(e) ==
  \/ node[edge[e].child].deleted_at
  \/ node[edge[e].parent].st = "alloc" /\ node[edge[e].parent].deleted_at

\* C19 (SpecEdge): Edge delete/restore inspect only the edge's own marker.
\* Whatever the state of parent and child, delete() returns
\* DeleteDeletedEdge iff deleted_at is set and otherwise sets it and returns
\* Ok; restore() returns RestoreNotDeletedEdge iff deleted_at is unset and
\* otherwise clears it and returns Ok; a refused call changes nothing, and
\* no call changes a node or another edge.  Hence on an edge with unset
\* marker and a soft-deleted endpoint restore() is refused, the marker stays
\* unset, and is_live(), where it returns, is false.
C19_OwnMarkerOnly ==
  [][\A t \in CallerIds, e \in EdgeIds :
       /\ EdgeCall(t, "edge_delete", e) =>
            /\ node' = node
            /\ IF edge[e].deleted_at
                 THEN call'[t].res = Err("DeleteDeletedEdge") /\ edge' = edge
                 ELSE /\ call'[t].res = Ok
                      /\ edge' = [edge EXCEPT ![e].deleted_at = TRUE]
       /\ EdgeCall(t, "edge_restore", e) =>
            /\ node' = node
            /\ IF ~edge[e].deleted_at
                 THEN /\ call'[t].res = Err("RestoreNotDeletedEdge")
                      /\ edge' = edge
                      /\ (EndpointDeleted(e) /\ is_live(e)' \in {"true", "false"})
                           => is_live(e)' = "false"
                 ELSE /\ call'[t].res = Ok
                      /\ edge' = [edge EXCEPT ![e].deleted_at = FALSE]]_vars

\* restore() has been refused on an edge with unset marker whose endpoint is
\* soft-deleted; is_live() is false.
C19_RestoreRefusedOnUnmarked ==
  \E t \in CallerIds, e \in EdgeIds :
    /\ call[t].op = "edge_restore" /\ call[t].pc = "idle" /\ call[t].e = e
    /\ call[t].res = Err("RestoreNotDeletedEdge")
    /\ edge[e].st = "alloc" /\ ~edge[e].deleted_at
    /\ EndpointDeleted(e)
    /\ is_live(e) = "false"

\* One caller and three nodes: an edge can be added to a node that already
\* holds an edge to or from a third node.
InitWide == InitWith([callers |-> {1}, nodes |-> WideNodes,
                      appends |-> WideAppends, values |-> WideValues])

SpecWide == InitWide /\ [][Next]_vars

\* A connect call is inside its critical section on node n: it holds or
\* asks for guards and n is its parent or child.
ConnectInside(n) ==
  \E t \in CallerIds :
    /\ call[t].op = "connect"
    /\ call[t].pc \in {"child", "body", "blocked"}
    /\ n \in {call[t].a, call[t].b}

\* C20 (SpecWide): both sides see the same edge.  Whenever no connect call
\* is inside its critical section on P or C, every edge with parent P and
\* child C is in C's edge collection and (while P exists) in P's; and every
\* edge in a node's collection has that node as its parent or its child.
C20_BothSidesSeeEdge ==
  /\ \A e \in EdgeIds :
       (/\ edge[e].st = "alloc"
        /\ ~ConnectInside(edge[e].parent) /\ ~ConnectInside(edge[e].child)) =>
         /\ Occurrences(node[edge[e].child].edges, e) = 1
         /\ node[edge[e].parent].st = "alloc" =>
              Occurrences(node[edge[e].parent].edges, e) = 1
  /\ \A n \in NodeIds : \A i \in 1..Len(node[n].edges) :
       n \in {edge[node[n].edges[i]].parent, edge[node[n].edges[i]].child}

\* An edge is in the collections of both its parent and its child, and no
\* call is running.
C20_EdgeOnBothSides ==
  \E e \in EdgeIds :
    /\ edge[e].st = "alloc"
    /\ edge[e].parent # edge[e].child
    /\ node[edge[e].parent].st = "alloc"
    /\ Occurrences(node[edge[e].parent].edges, e) = 1
    /\ Occurrences(node[edge[e].child].edges, e) = 1
    /\ \A t \in CallerIds : call[t].pc = "idle"

-----------------------------------------------------------------------------
\* One caller with the direct edge operations and two appends: a node can be
\* deleted and restored while it holds an edge whose marker has been set.
InitLong == InitWith([callers |-> {1}, nodes |-> LongNodes,
                      appends |-> LongAppends, values |-> LongValues])

SpecLong == InitLong /\ [][NextEdge]_vars

\* Vec s is what Vec t started as: t is s with elements pushed at the end.
IsPrefix(s, t) == Len(s) <= Len(t) /\ SubSeq(t, 1, Len(s)) = s

-----------------------------------------------------------------------------
\* The kind of the last Instance of node record nd ("none" for an empty
\* history).
LastKind(nd) ==
  IF last_instance(nd).k # "Ok" THEN "none"
  ELSE nd.instances[last_instance(nd).v].instance_type

\* C22 (Spec): the deletion marker agrees with the history.  In every
\* reachable state every existing node has a non-empty history whose first
\* Instance is Created and that has no later Created Instance, and its
\* deleted_at is set iff its last Instance is Deleted; value() on it is Ok,
\* and no call has returned OperationOnEmptyNode.
C22_MarkerAgreesWithHistory ==
  /\ \A n \in NodeIds :
       node[n].st = "alloc" =>
         /\ Len(node[n].instances) >= 1
         /\ node[n].instances[1].instance_type = "Created"
         /\ \A i \in 2..Len(node[n].instances) :
              node[n].instances[i].instance_type
                \in {"Updated", "Deleted", "Restored"}
         /\ Node_is_deleted(node[n]) <=> LastKind(node[n]) = "Deleted"
         /\ last_instance(node[n]).k = "Ok"
         /\ Node_value(node[n]).k = "Ok"
  /\ \A t \in CallerIds : call[t].res.k # "OperationOnEmptyNode"

\* The only node ever constructed has the history Created(v), Updated(w),
\* Deleted(w), its marker is set, and the value() call made after the
\* delete has returned Ok(w).
C22_ValueOfDeleted ==
  \E n \in NodeIds, t \in CallerIds :
    /\ node[n].st = "alloc" /\ Node_is_deleted(node[n])
    /\ \A m \in NodeIds \ {n} : node[m].st = "unborn"
    /\ Len(node[n].instances) = 3
    /\ node[n].instances[2].instance_type = "Updated"
    /\ LastKind(node[n]) = "Deleted"
    /\ node[n].instances[2].value # node[n].instances[1].value
    /\ call[t].op = "value" /\ call[t].pc = "idle"
    /\ call[t].res = Ret("Ok", node[n].instances[2].value)

-----------------------------------------------------------------------------
\* Two callers, started after the application has constructed one node and
\* soft-deleted it (new_ref(value) followed by delete()): both callers can
\* have a restore() of that node, or a delete() of a second node, in flight.
InitRace ==
  /\ cfg = [callers |-> CallerIds, nodes |-> RaceNodes,
            appends |-> RaceAppends, values |-> RaceValues]
  /\ \E value \in 1..RaceValues :
       node = [n \in NodeIds |->
                 IF n = 1 THEN Node_delete(Node_new(value)).node ELSE UnbornNode]
  /\ lock = [n \in NodeIds |-> FreeLock]
  /\ edge = [e \in EdgeIds |-> UnbornEdge]
  /\ call = [t \in CallerIds |-> NoCall]
  /\ trail = [t \in CallerIds |-> <<>>]

SpecRace == InitRace /\ [][NextConc]_vars

\* What a transition op ("delete" or "restore") requires of the marker, the
\* error it returns otherwise, and the kind of Instance it appends.
Requires(op)  == op = "restore"
Refusal(op)   == IF op = "delete" THEN Err("DeleteDeletedNode")
                 ELSE Err("RestoreNotDeletedNode")
AppendedBy(op) == IF op = "delete" THEN "Deleted" ELSE "Restored"

\* Callers t and u have both invoked op on node n, neither call has taken
\* n's lock yet, and n is in the state op requires (lock not poisoned).
InRace(op, t, u, n) ==
  /\ t # u
  /\ At(t, op, "start") /\ At(u, op, "start")
  /\ call[t].a = n /\ call[u].a = n
  /\ node[n].st = "alloc"
  /\ node[n].deleted_at = Requires(op)
  /\ ~lock[n].poisoned

\* Of two racing calls t has returned Ok and u has not run yet: n has left
\* the state op requires, and t has made no further call.
FirstDone(op, t, u, n) ==
  /\ t # u
  /\ call[t].op = op /\ call[t].pc = "idle" /\ call[t].res = Ok
  /\ At(u, op, "start") /\ call[u].a = n
  /\ node[n].st = "alloc"
  /\ node[n].deleted_at # Requires(op)
  /\ LastKind(node[n]) = AppendedBy(op)
  /\ ~lock[n].poisoned /\ lock[n].writer = 0

\* C23 (SpecRace): concurrent same-node transitions serialize.  When two
\* callers have delete() in flight on the same non-deleted node (or
\* restore() on the same deleted node), whichever call runs first returns
\* Ok, appends exactly one Deleted (resp. Restored) Instance and flips the
\* marker, leaving the other call still to run; and the other call, when it
\* runs next, returns DeleteDeletedNode (resp. RestoreNotDeletedNode) and
\* changes nothing.  So both orders end with one Ok, one refusal and one
\* appended Instance.
C23_TransitionsSerialize ==
  [][\A op \in {"delete", "restore"}, t \in CallerIds, u \in CallerIds,
        n \in NodeIds :
       /\ (InRace(op, t, u, n) /\ call'[t] # call[t]) =>
            /\ call'[t].op = op /\ call'[t].pc = "idle"
            /\ call'[t].res = Ok
            /\ Len(node'[n].instances) = Len(node[n].instances) + 1
            /\ IsPrefix(node[n].instances, node'[n].instances)
            /\ LastKind(node'[n]) = AppendedBy(op)
            /\ node'[n].deleted_at # node[n].deleted_at
            /\ call'[u] = call[u]
            /\ FirstDone(op, t, u, n)'
       /\ (FirstDone(op, t, u, n) /\ call'[u] # call[u]) =>
            /\ call'[u].op = op /\ call'[u].pc = "idle"
            /\ call'[u].res = Refusal(op)
            /\ node' = node
            /\ call'[t] = call[t]]_vars

\* Both callers have finished a restore(), one with Ok and the other with
\* RestoreNotDeletedNode, on the only node there is, whose history is
\* Created, Deleted, Restored: the budget of two appends leaves no room for
\* a restore() invoked after the successful one, so the two were in flight
\* together.
C23_RestoreRaceDone ==
  \E t \in CallerIds, u \in CallerIds :
    /\ t # u
    /\ call[t].op = "restore" /\ call[t].pc = "idle" /\ call[t].res = Ok
    /\ call[u].op = "restore" /\ call[u].pc = "idle"
    /\ call[u].res = Err("RestoreNotDeletedNode")
    /\ \A m \in NodeIds \ {1} : node[m].st = "unborn"
    /\ node[1].st = "alloc" /\ ~node[1].deleted_at
    /\ Len(node[1].instances) = 3
    /\ LastKind(node[1]) = "Restored"

-----------------------------------------------------------------------------
\* Caller t's connect call holds the write guard of node n.
ConnectHolds(t, n) ==
  /\ call[t].op = "connect"
  /\ \/ call[t].pc \in {"child", "blocked"} /\ n = call[t].a
     \/ call[t].pc = "body" /\ n \in {call[t].a, call[t].b}

\* C24 (SpecConc): no edge is created on a deleted endpoint, even under
\* races with delete().  A node whose guard a connect call holds is not
\* soft-deleted and no step deletes it; the step that creates an edge or
\* appends it to a collection is taken by a connect call holding the guards
\* of parent and child, both not soft-deleted before and after the step;
\* and a connect that takes the (unpoisoned) lock of a parent or child that
\* is soft-deleted by then returns OperationOnDeletedNode, appends nothing
\* and keeps no guard.
C24_NoEdgeOnDeletedEndpoint ==
  [][/\ \A t \in CallerIds, n \in NodeIds :
          ConnectHolds(t, n) =>
            /\ lock[n].writer = t
            /\ ~node[n].deleted_at /\ ~node'[n].deleted_at
     /\ \A n \in NodeIds :
          (node[n].st = "alloc" /\ node'[n].edges # node[n].edges) =>
            \E t \in CallerIds :
              /\ At(t, "connect", "body") /\ n \in {call[t].a, call[t].b}
              /\ ConnectHolds(t, call[t].a) /\ ConnectHolds(t, call[t].b)
              /\ ~node'[call[t].a].deleted_at /\ ~node'[call[t].b].deleted_at
     /\ \A e \in EdgeIds :
          (edge[e].st = "unborn" /\ edge'[e].st = "alloc") =>
            /\ ~node[edge'[e].parent].deleted_at
            /\ ~node[edge'[e].child].deleted_at
            /\ ~node'[edge'[e].parent].deleted_at
            /\ ~node'[edge'[e].child].deleted_at
     /\ \A t \in CallerIds :
          (/\ call'[t] # call[t]
           /\ \/ /\ At(t, "connect", "start")
                 /\ node[call[t].a].deleted_at /\ ~lock[call[t].a].poisoned
              \/ /\ At(t, "connect", "child") /\ call[t].a # call[t].b
                 /\ node[call[t].b].deleted_at /\ ~lock[call[t].b].poisoned) =>
            /\ call'[t].pc = "idle"
            /\ call'[t].res = Err("OperationOnDeletedNode")
            /\ node' = node /\ edge' = edge
            /\ \A n \in NodeIds : lock'[n].writer # t]_vars

\* A connect holds the guards of parent and child, about to append the
\* edge, while the other caller's delete() of the child waits for the lock.
C24_DeleteWaitsForConnect ==
  \E t \in CallerIds, u \in CallerIds :
    /\ At(t, "connect", "body") /\ call[t].a # call[t].b
    /\ ConnectHolds(t, call[t].a) /\ ConnectHolds(t, call[t].b)
    /\ At(u, "delete", "start") /\ call[u].a = call[t].b
    /\ TryWrite(u, call[u].a) = "wait"
    /\ \A e \in EdgeIds : edge[e].st = "unborn"

=============================================================================
